---------------------------- MODULE Spec2Model ----------------------------
(***************************************************************************)
(* Model of src/dataset.py: the corpus parser (CustomDataset.read_data),   *)
(* the label alignment (CustomDataset._tokenize_and_align_labels), the     *)
(* dataset container (CustomDataset.__getitem__) and the split/merge       *)
(* pipeline (NERDataModule.prepare_dataset).                               *)
(*                                                                         *)
(* Representation.  A text line is the sequence of the fields that         *)
(* line.split(' ') returns, so the blank line '' is <<"">>, the line       *)
(* 'John B-PERSON' is <<"John", "B-PERSON">> and the line ' O' (an empty   *)
(* word) is <<"", "O">>.  Python indexes are kept 0-based as values; a     *)
(* Python list is a TLA+ sequence, so list[i] is seq[i + 1] and            *)
(* list[a:b] is SubSeq(seq, a + 1, b).                                     *)
(*                                                                         *)
(* The module holds four state machines over disjoint variables, one per   *)
(* operation of the program: SpecRead, SpecAlign, SpecIndex, SpecPrepare.  *)
(***************************************************************************)
EXTENDS Integers, Sequences, FiniteSets

VARIABLES
    pc,                 \* position of the running operation
    error,              \* the exception that ended it, or None
    \* CustomDataset.read_data
    lines,              \* file.readlines(), each line without its '\n'
    sen_dataset,        \* the list read_data returns
    \* CustomDataset._tokenize_and_align_labels
    data_point,         \* one record of read_data
    subwords,           \* tokenizer: sub-word tokens of each word of the text
    label_all_tokens,   \* self.label_all_tokens
    word_ids,           \* tokenized_inputs.word_ids()
    label_ids,          \* tokenized_inputs["labels"]
    count,              \* the diagnostic counter
    \* CustomDataset.__getitem__
    dataset,            \* self.dataset
    idx,                \* the argument
    item,               \* <<the value returned>>, <<>> before the return
    \* NERDataModule.prepare_dataset
    data_format,        \* the arguments; val_size and test_size in tenths
    merge_sentence,
    val_size,
    test_size,
    table,              \* the rows of the file at dataset_path
    dataset_df,         \* the local dataset_df: [is_none, rows]
    df_train,           \* the frames of the two splits, as sets of rows
    df_rest,
    df_val,
    df_test,
    files               \* the output files written: name -> blocks

readVars  == <<lines, sen_dataset>>
alignVars == <<data_point, subwords, label_all_tokens, word_ids, label_ids, count>>
indexVars == <<dataset, idx, item>>
prepVars  == <<data_format, merge_sentence, val_size, test_size, table,
               dataset_df, df_train, df_rest, df_val, df_test, files>>
vars      == <<pc, error, readVars, alignVars, indexVars, prepVars>>

None == "None"

\* The variables of the operations a specification does not run.
IdleRead  == lines = <<>> /\ sen_dataset = <<>>
IdleAlign == /\ data_point = <<>> /\ subwords = <<>> /\ label_all_tokens = FALSE
             /\ word_ids = <<>> /\ label_ids = <<>> /\ count = 0
IdleIndex == dataset = <<>> /\ idx = 0 /\ item = <<>>
IdlePrep  == /\ data_format = None /\ merge_sentence = 0
             /\ val_size = 0 /\ test_size = 0 /\ table = <<>>
             /\ dataset_df = [is_none |-> TRUE, rows |-> <<>>]
             /\ df_train = {} /\ df_rest = {}
             /\ df_val = {} /\ df_test = {} /\ files = <<>>

(***************************************************************************)
(* Bounds of the model.                                                    *)
(***************************************************************************)
MaxLines == 6       \* lines of a corpus file

\* All sequences over S of length lo..hi.
SeqsOf(S, lo, hi) == UNION {[1..n -> S] : n \in lo..hi}

\* The sorted sequence of a finite set of integers.
RECURSIVE SortedSeq(_)
SortedSeq(S) ==
    IF S = {} THEN <<>>
    ELSE LET m == CHOOSE x \in S : \A y \in S : x <= y
         IN  <<m>> \o SortedSeq(S \ {m})

\* The concatenation of a sequence of sequences.
RECURSIVE Flatten(_)
Flatten(ss) == IF ss = <<>> THEN <<>> ELSE Head(ss) \o Flatten(Tail(ss))

(***************************************************************************)
(* CustomDataset.read_data                                                 *)
(***************************************************************************)
BlankLine == <<"">>

\* Raw lines of the modelled files.  The last one separates word and tag by
\* a tab and carries a MISCELLANEOUS tag.
RawLines ==
    { BlankLine,
      <<"John", "B-PERSON">>,
      <<"Smith", "I-PERSON">>,
      <<"Jane", "B-PERSON">>,
      <<"Acme\tB-MISCELLANEOUS">> }

\* field.replace('\t', ' '), then split(' '): a tab becomes a field border.
ReplaceTab(field) ==
    IF field = "Acme\tB-MISCELLANEOUS" THEN <<"Acme", "B-MISCELLANEOUS">>
    ELSE <<field>>

\* .replace('B-MISCELLANEOUS', 'O').replace('I-MISCELLANEOUS', 'O')
ReplaceMisc(field) ==
    IF field \in {"B-MISCELLANEOUS", "I-MISCELLANEOUS"} THEN "O" ELSE field

\* The cleanup of one line (line 51).
CleanLine(line) ==
    LET spaced == Flatten([i \in 1..Len(line) |-> ReplaceTab(line[i])])
    IN  [i \in 1..Len(spaced) |-> ReplaceMisc(spaced[i])]

\* list(np.where(np.array(lines) == '')[0]): 0-based indexes of blank lines.
BreakIdxs(ls) == SortedSeq({i - 1 : i \in {j \in 1..Len(ls) : ls[j] = BlankLine}})

\* A mutant of RecordStart: the delimiter is never skipped.
RecordStart_NoSkip(start_idx) == start_idx

\* Lines 59-60: the start of a record, one past its opening blank line
\* unless that blank line is line 0.
RecordStart(start_idx) ==
    IF start_idx # 0 THEN start_idx + 1 ELSE start_idx

\* Lines 55-62: one record per pair of consecutive blank lines.
Records(ls, break_idxs) ==
    [i \in 1..(IF Len(break_idxs) >= 1 THEN Len(break_idxs) - 1 ELSE 0) |->
        SubSeq(ls, RecordStart(break_idxs[i]) + 1, break_idxs[i + 1])]

\* read_data as a function of the file's lines.
ReadDataOf(raw) ==
    LET cleaned == [i \in 1..Len(raw) |-> CleanLine(raw[i])]
    IN  Records(cleaned, BreakIdxs(cleaned))

\* The files read: at least one line, each line as strip('\n') leaves it.
InitRead ==
    /\ lines \in SeqsOf(RawLines, 1, MaxLines)
    /\ sen_dataset = <<>>
    /\ pc = "read_data"
    /\ error = None
    /\ IdleAlign /\ IdleIndex /\ IdlePrep

read_data ==
    /\ pc = "read_data"
    /\ sen_dataset' = ReadDataOf(lines)
    /\ pc' = "returned"
    /\ UNCHANGED <<error, lines, alignVars, indexVars, prepVars>>

NextRead == read_data

SpecRead == InitRead /\ [][NextRead]_vars

(***************************************************************************)
(* Claims about read_data                                                  *)
(***************************************************************************)
Cleaned == [i \in 1..Len(lines) |-> CleanLine(lines[i])]

NumBlank == Cardinality({i \in 1..Len(lines) : Cleaned[i] = BlankLine})

\* The file does not start with a blank line and has no two blank lines in
\* a row.
WellSeparated ==
    /\ Cleaned[1] # BlankLine
    /\ \A i \in 1..(Len(lines) - 1) :
          ~(Cleaned[i] = BlankLine /\ Cleaned[i + 1] = BlankLine)

\* The sentences of a file: its runs of lines, each closed by a blank line.
RECURSIVE SentencesOf(_, _)
SentencesOf(ls, open) ==
    IF ls = <<>> THEN <<>>
    ELSE IF Head(ls) = BlankLine THEN <<open>> \o SentencesOf(Tail(ls), <<>>)
    ELSE SentencesOf(Tail(ls), Append(open, Head(ls)))

ExampleFile ==
    << <<"John", "B-PERSON">>, <<"Smith", "I-PERSON">>, BlankLine,
       <<"Jane", "B-PERSON">>, BlankLine >>

\* C1 (as claimed): read_data returns every sentence of the file in file
\* order, the first one included although no blank line precedes it; the
\* example file of 5 lines gives the two records John+Smith and Jane.
C1_EverySentenceReturned ==
    pc = "returned" =>
        /\ WellSeparated => sen_dataset = SentencesOf(Cleaned, <<>>)
        /\ lines = ExampleFile =>
              sen_dataset = << << <<"John", "B-PERSON">>, <<"Smith", "I-PERSON">> >>,
                               << <<"Jane", "B-PERSON">> >> >>

RecordIsSentence(r) == Len(r) >= 1 /\ \A k \in 1..Len(r) : r[k] # BlankLine

\* C2 (as claimed): for every file the number of records is the number of
\* blank lines minus 1 and every record is non-empty and free of blank
\* lines.
C2_CountAndNonEmptyAlways ==
    pc = "returned" =>
        /\ Len(sen_dataset) = NumBlank - 1
        /\ \A i \in 1..Len(sen_dataset) : RecordIsSentence(sen_dataset[i])

\* C2 (amended): the number of records is the number of blank lines minus 1
\* when the file has a blank line and 0 when it has none; every record is
\* non-empty and free of blank lines when the file neither starts with a
\* blank line nor has two blank lines in a row.
C2_CountAndNonEmpty ==
    pc = "returned" =>
        /\ Len(sen_dataset) = (IF NumBlank >= 1 THEN NumBlank - 1 ELSE 0)
        /\ WellSeparated =>
              \A i \in 1..Len(sen_dataset) : RecordIsSentence(sen_dataset[i])

\* A well separated file of three sentences has been read.
C2_Witness ==
    /\ pc = "returned"
    /\ WellSeparated
    /\ NumBlank = 3
    /\ Len(sen_dataset) = 2

(***************************************************************************)
(* CustomDataset._tokenize_and_align_labels                                *)
(***************************************************************************)
MaxWords     == 2   \* lines of a record
MaxSub       == 2   \* sub-word tokens the tokenizer makes of one word
MaxSeqLength == 5   \* max_seq_length handed to the tokenizer

Ignore == -100

\* The word id None of a special or padding token (an integer, as word ids
\* are compared with each other).
NoWord == -1

\* tags_list handed to the constructor: some tags of the list of lines
\* 262-276.
tags_list == <<"B-PERSON", "I-PERSON", "O", "B-LOCATION">>

\* Lines 34-36: tag2id[tags_list[i]] = i, a later i overwriting an earlier.
HasTag(tag) == \E i \in 1..Len(tags_list) : tags_list[i] = tag
tag2id(tag) ==
    (CHOOSE i \in 1..Len(tags_list) :
        /\ tags_list[i] = tag
        /\ \A j \in 1..Len(tags_list) : tags_list[j] = tag => j <= i) - 1

\* Lines of the modelled records, as read_data leaves them: two fields,
\* three fields, a tag outside tags_list, one field, an empty word, and the
\* blank line a record holds when the file starts with one.
AlignLines ==
    { <<"John", "B-PERSON">>,
      <<"Smith", "I-PERSON">>,
      <<"New", "York", "B-LOCATION">>,
      <<"Bob", "B-FOO">>,
      <<"John">>,
      <<"", "O">>,
      BlankLine }

\* Line 75: word.split(' ')[0]
WordOfLine(line) == line[1]

\* Line 76: word.split(' ')[-1]
LabelOfLine(line) == line[Len(line)]

word_list_of(dp)  == [i \in 1..Len(dp) |-> WordOfLine(dp[i])]
label_list_of(dp) == [i \in 1..Len(dp) |-> LabelOfLine(dp[i])]

\* Line 78 and the tokenizer's split of the text into words: the words of
\* ' '.join(word_list) are its non-empty space-separated pieces.
TextWords(words) == SelectSeq(words, LAMBDA w : w # "")

\* Lines 79-84: word_ids() of the tokenized text.  The special token, then
\* subs[w] positions for word w (0-based), cut to max_length - 2 positions,
\* then the closing special token and the padding, all with word id None.
WordRuns(subs) ==
    Flatten([w \in 1..Len(subs) |-> [k \in 1..subs[w] |-> w - 1]])
WordIdsOf(subs, max_length) ==
    LET content == WordRuns(subs)
        kept    == SubSeq(content, 1,
                          IF Len(content) <= max_length - 2
                          THEN Len(content) ELSE max_length - 2)
    IN  <<NoWord>> \o kept \o [k \in 1..(max_length - 1 - Len(kept)) |-> NoWord]

\* Lines 97-101, 105-109: self.tag2id[label_list[word_idx]] raises when the
\* list has no such index or the dictionary no such tag.
LookupFails(labels, word_idx) ==
    \/ word_idx + 1 > Len(labels)
    \/ ~HasTag(labels[word_idx + 1])

\* A mutant of LookupLabel: a failed lookup falls back to the id of "O".
LookupLabel_DefaultO(labels, word_idx) ==
    IF LookupFails(labels, word_idx) THEN tag2id("O")
    ELSE tag2id(labels[word_idx + 1])

\* The label the try blocks append: the tag's id, or -100 when the lookup
\* raised (count is then incremented).
LookupLabel(labels, word_idx) ==
    IF LookupFails(labels, word_idx) THEN Ignore
    ELSE tag2id(labels[word_idx + 1])

\* A mutant of ContinuationLabel: label_all_tokens is not consulted.
ContinuationLabel_All(labels, word_idx, all) == LookupLabel(labels, word_idx)

\* Line 106: the label of a later sub-word of a word.
ContinuationLabel(labels, word_idx, all) ==
    IF all THEN LookupLabel(labels, word_idx) ELSE Ignore

\* Lines 90-110, one pass of the loop body for position k (1-based), with
\* previous_word_idx the word id of position k - 1 (None before the first).
PreviousWordIdx(wids, k) == IF k = 1 THEN NoWord ELSE wids[k - 1]

LabelAt(wids, labels, all, k) ==
    IF wids[k] = NoWord THEN Ignore
    ELSE IF wids[k] # PreviousWordIdx(wids, k) THEN LookupLabel(labels, wids[k])
    ELSE ContinuationLabel(labels, wids[k], all)

\* Whether the pass for position k runs an except block (count += 1).
CountsAt(wids, labels, all, k) ==
    /\ wids[k] # NoWord
    /\ (wids[k] # PreviousWordIdx(wids, k) \/ all)
    /\ LookupFails(labels, wids[k])

AlignLabels(wids, labels, all) ==
    [k \in 1..Len(wids) |-> LabelAt(wids, labels, all, k)]

AlignCount(wids, labels, all) ==
    Cardinality({k \in 1..Len(wids) : CountsAt(wids, labels, all, k)})

\* The records read_data can return: a blank line is at most the first line
\* of a record (lines[0:end] of a file that starts with one), and a record
\* between two adjacent blank lines is empty.
DataPoints ==
    { dp \in SeqsOf(AlignLines, 0, MaxWords) :
        \A i \in 2..Len(dp) : dp[i] # BlankLine }

InitAlign ==
    /\ data_point \in DataPoints
    /\ subwords \in [1..Len(TextWords(word_list_of(data_point))) -> 1..MaxSub]
    /\ label_all_tokens \in BOOLEAN
    /\ word_ids = <<>>
    /\ label_ids = <<>>
    /\ count = 0
    /\ pc = "align"
    /\ error = None
    /\ IdleRead /\ IdleIndex /\ IdlePrep

tokenize_and_align_labels ==
    /\ pc = "align"
    /\ LET wids == WordIdsOf(subwords, MaxSeqLength)
       IN  /\ word_ids' = wids
           /\ label_ids' = AlignLabels(wids, label_list_of(data_point),
                                       label_all_tokens)
           /\ count' = AlignCount(wids, label_list_of(data_point),
                                  label_all_tokens)
    /\ pc' = "returned"
    /\ UNCHANGED <<error, data_point, subwords, label_all_tokens,
                   readVars, indexVars, prepVars>>

NextAlign == tokenize_and_align_labels

SpecAlign == InitAlign /\ [][NextAlign]_vars

(***************************************************************************)
(* Claims about _tokenize_and_align_labels.  A word is the word the        *)
(* tokenizer numbers w; its tag is label_list[w], as in the code.          *)
(***************************************************************************)
label_list == label_list_of(data_point)

Positions(w) == {k \in 1..Len(word_ids) : word_ids[k] = w}
FirstPosition(w) == CHOOSE k \in Positions(w) : \A j \in Positions(w) : k <= j
WordsSeen == {word_ids[k] : k \in 1..Len(word_ids)} \ {NoWord}

\* The word index the tokenizer gives the word of line i: the number of
\* non-empty words before it.
WordIndexOfLine(i) ==
    Len(TextWords(SubSeq(word_list_of(data_point), 1, i - 1)))

\* C4 (as claimed): with label_all_tokens false every word of every
\* sentence has exactly one sub-word position with a real label, its first,
\* and -100 on its other positions.
C4_OneRealLabelPerWordAlways ==
    (pc = "returned" /\ ~label_all_tokens) =>
        \A i \in 1..Len(data_point) :
            WordOfLine(data_point[i]) # "" =>
                LET w == WordIndexOfLine(i)
                IN  /\ Positions(w) # {}
                    /\ label_ids[FirstPosition(w)] # Ignore
                    /\ \A k \in Positions(w) \ {FirstPosition(w)} :
                          label_ids[k] = Ignore

\* C4 (amended): with label_all_tokens false, every word the tokenizer
\* reports (a word cut off by truncation has no position) has -100 on all
\* its positions but the first; the first holds the id of the word's tag
\* when that tag is in the vocabulary and -100 when it is not.
C4_OneRealLabelPerWord ==
    (pc = "returned" /\ ~label_all_tokens) =>
        \A w \in WordsSeen :
            /\ \A k \in Positions(w) \ {FirstPosition(w)} : label_ids[k] = Ignore
            /\ (w < Len(label_list) /\ HasTag(label_list[w + 1])) =>
                  /\ label_ids[FirstPosition(w)] = tag2id(label_list[w + 1])
                  /\ label_ids[FirstPosition(w)] # Ignore
            /\ ~(w < Len(label_list) /\ HasTag(label_list[w + 1])) =>
                  label_ids[FirstPosition(w)] = Ignore

\* A word of two sub-word tokens with a known tag has been aligned, next to
\* a word whose tag is unknown.
C4_Witness ==
    /\ pc = "returned"
    /\ ~label_all_tokens
    /\ \E w \in WordsSeen :
          /\ Cardinality(Positions(w)) = 2
          /\ label_ids[FirstPosition(w)] # Ignore
    /\ \E w \in WordsSeen : ~HasTag(label_list[w + 1])

\* The whitespace-separated fields of a line.
NumFields(line) == Len(SelectSeq(line, LAMBDA f : f # ""))

\* C7 (as claimed): a record with a non-blank line of fewer than 2
\* whitespace-separated fields is not parsed: the operation raises instead
\* of returning.
C7_ShortLineRejected ==
    (\E i \in 1..Len(data_point) :
        data_point[i] # BlankLine /\ NumFields(data_point[i]) < 2)
    => pc # "returned"

\* The word of a line as written: all fields before the last one.
WordPortion(line) == SubSeq(line, 1, Len(line) - 1)

\* C9 (as claimed): for a line of more than two fields the tag is the last
\* field and the word is everything before the last space.
C9_WordIsAllBeforeLastSpace ==
    pc = "returned" =>
        \A i \in 1..Len(data_point) :
            Len(data_point[i]) > 2 =>
                /\ label_list[i] = data_point[i][Len(data_point[i])]
                /\ <<word_list_of(data_point)[i]>> = WordPortion(data_point[i])

\* label_list with the tag of word w replaced by a tag of the vocabulary.
WithKnownTag(labels, w) == [labels EXCEPT ![w + 1] = "O"]

MaxItems == 3       \* examples of a dataset

\* Aligned examples, named by their labels.
Examples == { <<Ignore, 0, Ignore>>, <<Ignore, 2, 1>> }

\* Line 66-67.
len_of(ds) == Len(ds)

\* A mutant of ListIndexRaises: a negative index is out of range.
ListIndexRaises_Negative(ds, i) == i < 0 \/ i >= Len(ds)

\* Line 70: self.dataset[idx] on a list raises IndexError outside
\* [-len, len).
ListIndexRaises(ds, i) == i < -Len(ds) \/ i >= Len(ds)

\* Line 70: self.dataset[idx]; a negative index counts from the end.
ListIndex(ds, i) == IF i >= 0 THEN ds[i + 1] ELSE ds[Len(ds) + i + 1]

InitIndex ==
    /\ dataset \in SeqsOf(Examples, 0, MaxItems)
    /\ idx \in -(MaxItems + 1)..(MaxItems + 1)
    /\ item = <<>>
    /\ pc = "getitem"
    /\ error = None
    /\ IdleRead /\ IdleAlign /\ IdlePrep

getitem_return ==
    /\ pc = "getitem"
    /\ ~ListIndexRaises(dataset, idx)
    /\ item' = <<ListIndex(dataset, idx)>>
    /\ pc' = "returned"
    /\ UNCHANGED <<error, dataset, idx, readVars, alignVars, prepVars>>

getitem_raise ==
    /\ pc = "getitem"
    /\ ListIndexRaises(dataset, idx)
    /\ error' = "IndexError"
    /\ pc' = "raised"
    /\ UNCHANGED <<item, dataset, idx, readVars, alignVars, prepVars>>

NextIndex == getitem_return \/ getitem_raise

SpecIndex == InitIndex /\ [][NextIndex]_vars

\* C8 (as claimed): the lookup returns the idx-th example for idx in
\* [0, length) and raises IndexError for every other integer idx, the
\* negative ones included.
C8_IndexErrorOutsideRange ==
    /\ pc = "returned" =>
          (idx >= 0 /\ idx < len_of(dataset) /\ item = <<dataset[idx + 1]>>)
    /\ (pc # "getitem" /\ (idx < 0 \/ idx >= len_of(dataset))) =>
          (pc = "raised" /\ error = "IndexError")

\* C8 (amended): the lookup returns the idx-th example for idx in
\* [0, length), the (length + idx)-th example for idx in [-length, 0), and
\* raises IndexError for every other integer idx.
C8_IndexedLookup ==
    pc # "getitem" =>
        /\ (idx >= 0 /\ idx < len_of(dataset)) =>
              (pc = "returned" /\ item = <<dataset[idx + 1]>>)
        /\ (idx < 0 /\ idx >= -len_of(dataset)) =>
              (pc = "returned" /\ item = <<dataset[len_of(dataset) + idx + 1]>>)
        /\ (idx >= len_of(dataset) \/ idx < -len_of(dataset)) =>
              (pc = "raised" /\ error = "IndexError" /\ item = <<>>)

\* The last example of a dataset of three has been returned for idx = -1.
C8_Witness ==
    /\ pc = "returned"
    /\ len_of(dataset) = 3
    /\ idx = -1
    /\ item = <<dataset[3]>>

(***************************************************************************)
(* NERDataModule.prepare_dataset                                           *)
(*                                                                         *)
(* A table row is [source, conll_label]; the tagged lines of the input     *)
(* rows are named by numbers, row i holding the one line i.  A frame that  *)
(* a split returns is the set of its rows, each with its index in          *)
(* dataset_df: the order the shuffle gives them is not modelled.           *)
(***************************************************************************)
MaxRows  == 5       \* rows of the input table
MaxMerge == 2       \* largest merge_sentence

\* merge_sentence is None.
NoMerge == 0

\* val_size and test_size are floats, modelled in tenths: SizeUnit is 1.0.
SizeUnit == 10

Sources == {"a", "b", "NaN"}
Formats == {"doccano", "csv", "json"}

\* <<val_size, test_size>> of the modelled calls, in tenths.
SizePairs == { <<2, 1>>, <<3, 3>>, <<5, 5>>, <<8, 3>>, <<0, 2>> }

TableOf(srcs) ==
    [i \in 1..Len(srcs) |-> [source |-> srcs[i], conll_label |-> <<i>>]]

NoneFrame == [is_none |-> TRUE, rows |-> <<>>]
DataFrame(rows) == [is_none |-> FALSE, rows |-> rows]

\* A mutant of FormatSupported: the last branch is an else.
FormatSupported_Any(fmt) == TRUE

\* Lines 168-173: the formats that assign dataset_df.
FormatSupported(fmt) == fmt \in {"doccano", "csv"}

\* Line 177: range(0, n, m)[:-1], the starts of all chunks but the last.
ChunkStarts(n, m) ==
    LET chunks == (n + m - 1) \div m
    IN  [c \in 1..(IF chunks >= 1 THEN chunks - 1 ELSE 0) |-> (c - 1) * m]

\* Lines 178, 182: iloc[start_idx:start_idx + merge_sentence]
Chunk(rows, start_idx, m) ==
    SubSeq(rows, start_idx + 1,
           IF start_idx + m <= Len(rows) THEN start_idx + m ELSE Len(rows))

\* Lines 178-179: value_counts(dropna=False).index[0] is a most frequent
\* source of the chunk; which one of several is pandas' choice.
SourceCount(chunk, src) == Cardinality({i \in 1..Len(chunk) : chunk[i].source = src})
MainSources(chunk) ==
    {src \in Sources :
        /\ SourceCount(chunk, src) >= 1
        /\ \A other \in Sources : SourceCount(chunk, other) <= SourceCount(chunk, src)}

\* Lines 181-183: the chunk's conll_label lists, extended in row order.
MergedLabel(chunk) == Flatten([i \in 1..Len(chunk) |-> chunk[i].conll_label])

\* Lines 176-187: the tables new_dataset can be, one row per chunk start.
RECURSIVE NewDatasets(_, _, _)
NewDatasets(rows, m, starts) ==
    IF starts = <<>> THEN {<<>>}
    ELSE LET chunk == Chunk(rows, Head(starts), m)
         IN  { <<[source |-> main_source, conll_label |-> MergedLabel(chunk)]>>
                   \o later :
               main_source \in MainSources(chunk),
               later \in NewDatasets(rows, m, Tail(starts)) }

MergedTables(rows, m) == NewDatasets(rows, m, ChunkStarts(Len(rows), m))

\* Line 189: fillna('other') on the source column.
FillNa(rows) ==
    [i \in 1..Len(rows) |->
        [rows[i] EXCEPT !.source = IF @ = "NaN" THEN "other" ELSE @]]

\* The rows of a frame with their index.
RowsOf(rows) ==
    { [index |-> i - 1, source |-> rows[i].source,
       conll_label |-> rows[i].conll_label] : i \in 1..Len(rows) }

\* train_test_split(frame, stratify=source, train_size=num/den), lines
\* 191-201.  train_size must lie in (0, 1).
TrainSizeInvalid(num, den) == num <= 0 \/ num >= den

\* floor(train_size * n); a product that is a whole number may come out of
\* the floating-point arithmetic just below it.
TrainCounts(num, den, n) ==
    LET q == (num * n) \div den
    IN  IF (num * n) % den = 0 /\ q >= 1 THEN {q, q - 1} ELSE {q}

ClassesOf(frame) == {r.source : r \in frame}
ClassRows(frame, src) == {r \in frame : r.source = src}

\* The split raises ValueError: an empty train set, a class of one member,
\* or fewer train or test rows than classes.
SplitRaises(frame, num, den, n_train) ==
    \/ TrainSizeInvalid(num, den)
    \/ n_train = 0
    \/ \E src \in ClassesOf(frame) : Cardinality(ClassRows(frame, src)) < 2
    \/ n_train < Cardinality(ClassesOf(frame))
    \/ Cardinality(frame) - n_train < Cardinality(ClassesOf(frame))

\* The train sets of a stratified split: n_train rows, of each class its
\* share rounded down or up.
TrainSets(frame, n_train) ==
    { T \in SUBSET frame :
        /\ Cardinality(T) = n_train
        /\ \A src \in ClassesOf(frame) :
              LET share == n_train * Cardinality(ClassRows(frame, src))
                  n     == Cardinality(frame)
                  got   == Cardinality(ClassRows(T, src))
              IN  /\ share \div n <= got
                  /\ got <= (share + n - 1) \div n }

\* A mutant of SecondSplitInput: the second split is given dataset_df.
SecondSplitInput_All(all_rows, rest) == all_rows

\* Line 197: the frame the second split divides.
SecondSplitInput(all_rows, rest) == rest

\* Lines 213-219: the blocks write_to_file writes, one per row.
WriteToFile(df_data) ==
    { [index |-> r.index, conll_label |-> r.conll_label] : r \in df_data }

OutputFiles == {"train_data_old.txt", "val_data_old.txt", "test_data_old.txt"}

InitPrepare ==
    /\ data_format \in Formats
    /\ merge_sentence \in {NoMerge} \cup 1..MaxMerge
    /\ \E sizes \in SizePairs : val_size = sizes[1] /\ test_size = sizes[2]
    /\ \E srcs \in SeqsOf(Sources, 0, MaxRows) : table = TableOf(srcs)
    /\ dataset_df = NoneFrame
    /\ df_train = {} /\ df_rest = {} /\ df_val = {} /\ df_test = {}
    /\ files = <<>>
    /\ pc = "load"
    /\ error = None
    /\ IdleRead /\ IdleAlign /\ IdleIndex

prepArgs == <<data_format, merge_sentence, val_size, test_size, table>>

\* Lines 167-173.
load_table ==
    /\ pc = "load"
    /\ dataset_df' = IF FormatSupported(data_format)
                     THEN DataFrame(table) ELSE NoneFrame
    /\ pc' = "merge"
    /\ UNCHANGED <<error, prepArgs, df_train, df_rest, df_val, df_test, files,
                   readVars, alignVars, indexVars>>

\* Lines 175-187 with merge_sentence None: nothing to do.
merge_skip ==
    /\ pc = "merge"
    /\ merge_sentence = NoMerge
    /\ pc' = "fillna"
    /\ UNCHANGED <<error, prepArgs, dataset_df, df_train, df_rest, df_val,
                   df_test, files, readVars, alignVars, indexVars>>

\* Lines 175-187.
merge_rows ==
    /\ pc = "merge"
    /\ merge_sentence # NoMerge
    /\ ~dataset_df.is_none
    /\ \E new_dataset \in MergedTables(dataset_df.rows, merge_sentence) :
          dataset_df' = DataFrame(new_dataset)
    /\ pc' = "fillna"
    /\ UNCHANGED <<error, prepArgs, df_train, df_rest, df_val, df_test, files,
                   readVars, alignVars, indexVars>>

\* Line 177: len(None).
merge_raise ==
    /\ pc = "merge"
    /\ merge_sentence # NoMerge
    /\ dataset_df.is_none
    /\ error' = "TypeError"
    /\ pc' = "raised"
    /\ UNCHANGED <<prepArgs, dataset_df, df_train, df_rest, df_val, df_test,
                   files, readVars, alignVars, indexVars>>

\* Line 189.
fill_source ==
    /\ pc = "fillna"
    /\ ~dataset_df.is_none
    /\ dataset_df' = DataFrame(FillNa(dataset_df.rows))
    /\ pc' = "split_train"
    /\ UNCHANGED <<error, prepArgs, df_train, df_rest, df_val, df_test, files,
                   readVars, alignVars, indexVars>>

\* Line 189: None['source'].
fill_raise ==
    /\ pc = "fillna"
    /\ dataset_df.is_none
    /\ error' = "TypeError"
    /\ pc' = "raised"
    /\ UNCHANGED <<prepArgs, dataset_df, df_train, df_rest, df_val, df_test,
                   files, readVars, alignVars, indexVars>>

\* Lines 191-195.
split_train ==
    /\ pc = "split_train"
    /\ LET frame == RowsOf(dataset_df.rows)
           num   == SizeUnit - val_size - test_size
       IN  \E n_train \in TrainCounts(num, SizeUnit, Cardinality(frame)) :
              /\ ~SplitRaises(frame, num, SizeUnit, n_train)
              /\ \E T \in TrainSets(frame, n_train) :
                    /\ df_train' = T
                    /\ df_rest' = frame \ T
    /\ pc' = "split_val"
    /\ UNCHANGED <<error, prepArgs, dataset_df, df_val, df_test, files,
                   readVars, alignVars, indexVars>>

split_train_raise ==
    /\ pc = "split_train"
    /\ LET frame == RowsOf(dataset_df.rows)
           num   == SizeUnit - val_size - test_size
       IN  \E n_train \in TrainCounts(num, SizeUnit, Cardinality(frame)) :
              SplitRaises(frame, num, SizeUnit, n_train)
    /\ error' = "ValueError"
    /\ pc' = "raised"
    /\ UNCHANGED <<prepArgs, dataset_df, df_train, df_rest, df_val, df_test,
                   files, readVars, alignVars, indexVars>>

\* Lines 197-201.
split_val ==
    /\ pc = "split_val"
    /\ val_size + test_size # 0
    /\ LET frame == SecondSplitInput(RowsOf(dataset_df.rows), df_rest)
           den   == val_size + test_size
       IN  \E n_val \in TrainCounts(val_size, den, Cardinality(frame)) :
              /\ ~SplitRaises(frame, val_size, den, n_val)
              /\ \E T \in TrainSets(frame, n_val) :
                    /\ df_val' = T
                    /\ df_test' = frame \ T
    /\ pc' = "write"
    /\ UNCHANGED <<error, prepArgs, dataset_df, df_train, df_rest, files,
                   readVars, alignVars, indexVars>>

\* Line 201 divides by val_size + test_size before the call.
SecondSplitRaises(frame, num, den) ==
    \/ den = 0
    \/ \E n_val \in TrainCounts(num, den, Cardinality(frame)) :
          SplitRaises(frame, num, den, n_val)

split_val_raise ==
    /\ pc = "split_val"
    /\ SecondSplitRaises(SecondSplitInput(RowsOf(dataset_df.rows), df_rest),
                         val_size, val_size + test_size)
    /\ error' = IF val_size + test_size = 0
                THEN "ZeroDivisionError" ELSE "ValueError"
    /\ pc' = "raised"
    /\ UNCHANGED <<prepArgs, dataset_df, df_train, df_rest, df_val, df_test,
                   files, readVars, alignVars, indexVars>>

\* Lines 204-206.
write_files ==
    /\ pc = "write"
    /\ files' = [name \in OutputFiles |->
                    IF name = "train_data_old.txt" THEN WriteToFile(df_train)
                    ELSE IF name = "val_data_old.txt" THEN WriteToFile(df_val)
                    ELSE WriteToFile(df_test)]
    /\ pc' = "done"
    /\ UNCHANGED <<error, prepArgs, dataset_df, df_train, df_rest, df_val,
                   df_test, readVars, alignVars, indexVars>>

NextPrepare ==
    \/ load_table
    \/ merge_skip
    \/ merge_rows
    \/ merge_raise
    \/ fill_source
    \/ fill_raise
    \/ split_train
    \/ split_train_raise
    \/ split_val
    \/ split_val_raise
    \/ write_files

SpecPrepare == InitPrepare /\ [][NextPrepare]_vars

(***************************************************************************)
(* Claims about prepare_dataset                                            *)
(***************************************************************************)
Merged == pc \notin {"load", "merge"} /\ ~dataset_df.is_none

\* C3 (as claimed): with merge factor M only a final chunk of fewer than M
\* rows is dropped: a table of k*M rows gives k merged rows, each the
\* concatenation of its chunk's tag-sequences in order; 4 rows with sources
\* a, a, b, b and M = 2 give 2 rows with sources a and b.
C3_FullChunksMerged ==
    (Merged /\ merge_sentence # NoMerge /\ Len(table) % merge_sentence = 0) =>
        /\ Len(dataset_df.rows) = Len(table) \div merge_sentence
        /\ \A c \in 1..Len(dataset_df.rows) :
              dataset_df.rows[c].conll_label =
                  MergedLabel(SubSeq(table, (c - 1) * merge_sentence + 1,
                                     c * merge_sentence))
        /\ (merge_sentence = 2 /\ table = TableOf(<<"a", "a", "b", "b">>)) =>
              /\ Len(dataset_df.rows) = 2
              /\ dataset_df.rows[1].source = "a"
              /\ dataset_df.rows[2].source = "b"

Disjoint(A, B) == A \cap B = {}

\* C5: when prepare_dataset completes, train, validation and test are
\* pairwise disjoint and together hold every (merged) row, and every row
\* is written to exactly one of the three output files.
C5_PartitionsCoverRowsOnce ==
    pc = "done" =>
        LET frame == RowsOf(dataset_df.rows)
        IN  /\ df_train \cup df_val \cup df_test = frame
            /\ Disjoint(df_train, df_val)
            /\ Disjoint(df_train, df_test)
            /\ Disjoint(df_val, df_test)
            /\ DOMAIN files = OutputFiles
            /\ \A r \in frame :
                  Cardinality({name \in DOMAIN files :
                                  [index |-> r.index,
                                   conll_label |-> r.conll_label] \in files[name]}) = 1
            /\ \A name \in DOMAIN files : \A b \in files[name] :
                  \E r \in frame :
                      b = [index |-> r.index, conll_label |-> r.conll_label]

\* A merged table has been split into three non-empty partitions and
\* written.
C5_Witness ==
    /\ pc = "done"
    /\ merge_sentence # NoMerge
    /\ Len(dataset_df.rows) = 4
    /\ df_train # {} /\ df_val # {} /\ df_test # {}
    /\ files["test_data_old.txt"] # {}

BadConfiguration ==
    \/ val_size + test_size >= SizeUnit
    \/ data_format \notin {"doccano", "csv"}

\* C6: with val_size + test_size >= 1 or a data_format other than
\* 'doccano' and 'csv', prepare_dataset does not complete: it goes on until
\* it raises (ValueError from the split for the sizes, TypeError on the
\* missing table for the format) and writes no file.
C6_BadConfigurationFails ==
    BadConfiguration =>
        /\ pc \in {"load", "merge", "fillna", "split_train", "raised"}
        /\ pc # "raised" => (error = None /\ ENABLED NextPrepare)
        /\ pc = "raised" => error \in {"ValueError", "TypeError"}
        /\ files = <<>>

\* A call with val_size + test_size >= 1 on a supported format and a table
\* of four rows has raised.
C6_Witness ==
    /\ pc = "raised"
    /\ error = "ValueError"
    /\ val_size + test_size >= SizeUnit
    /\ FormatSupported(data_format)
    /\ Len(table) = 4

=============================================================================
